---- MODULE Spec2Model ----
(***************************************************************************)
(* Model of loggibud/v1/baselines/task1/lkh_3.py: the adapter around the   *)
(* external LKH-3 solver.  solve() runs the pipeline                       *)
(*   convert_instance_file -> solve_lkh -> read_solution ->                *)
(*   remove_auxiliary_files                                                *)
(* over three auxiliary files whose names derive from the instance name.   *)
(* The external solver is a black box: it may exit with any code and may   *)
(* leave any tour file (or none) behind.                                   *)
(***************************************************************************)
EXTENDS Integers, Sequences, FiniteSets, TLC

VARIABLES
    instance,   \* instance[p]: the CVRPInstance given to the p-th solve call
    fs,         \* the filesystem: file name -> file
    pc,         \* pc[p]: the stage solve call p is about to run, or how it ended
    err,        \* err[p]: the exception solve call p ended with ("" = none)
    solution,   \* solution[p]: <<>> or <<the CVRPSolution read_solution returned>>
    launched,   \* launched[p]: the external solver process was started
    exitcode,   \* exitcode[p]: exit status of the solver process (once launched)
    touched     \* touched[p]: file names call p (or its solver) wrote, read or deleted

vars == <<instance, fs, pc, err, solution, launched, exitcode, touched>>

----------------------------------------------------------------------------
(* Bounds of the model *)

MaxDeliveries == 3
MaxSize == 5
MaxCapacity == 6
MaxTourDeliveries == 2

----------------------------------------------------------------------------
(* Python helpers *)

NoError == ""

Min(S) == CHOOSE x \in S : \A y \in S : x <= y
Max(S) == CHOOSE x \in S : \A y \in S : x >= y

\* math.ceil(a / b) for integers a >= 0, b > 0 (the float quotient is exact
\* at these magnitudes)
ceil(a, b) == (a + b - 1) \div b

\* list[i] with Python's 0-based index i: a negative i counts from the end;
\* the result is the 1-based position, or 0 where Python raises IndexError
PyIndex(n, i) ==
    IF i >= 0 /\ i < n THEN i + 1
    ELSE IF i < 0 /\ i >= -n THEN n + i + 1
    ELSE 0

BoundedSeq(S, k) == UNION {[1..m -> S] : m \in 0..k}

----------------------------------------------------------------------------
(* Files *)

\* a line of a text file: a decimal numeral (txt = "") or any other text
Num(k) == [txt |-> "", num |-> k]
Txt(s) == [txt |-> s, num |-> 0]

NoFile == [kind |-> "absent", lines |-> <<>>, problem_file |-> "",
           tour_file |-> "", vehicles |-> 0]

Exists(f) == fs[f].kind # "absent"

DEPOT_NODE == 1

\* The three auxiliary file names of an instance
AuxNamesWithoutInstance(inst) ==
    [input_vrp_file   |-> "vrp_input_temp_" \o inst.name \o ".vrp",
     input_par_file   |-> "vrp_input_temp_" \o inst.name \o ".par",
     output_tour_file |-> "vrp_output_temp.vrp"]

_get_auxiliary_file_names(inst) ==
    [input_vrp_file   |-> "vrp_input_temp_" \o inst.name \o ".vrp",
     input_par_file   |-> "vrp_input_temp_" \o inst.name \o ".par",
     output_tour_file |-> "vrp_output_temp_" \o inst.name \o ".vrp"]

\* dict.values(), in insertion order
AuxValues(inst) ==
    LET names == _get_auxiliary_file_names(inst)
    IN  <<names.input_vrp_file, names.input_par_file, names.output_tour_file>>

AuxSet(inst) == {AuxValues(inst)[i] : i \in 1..3}

----------------------------------------------------------------------------
(* Instances *)

Names == {"a", "b", "a.vrp"}

Deliveries(sizes) == [i \in 1..Len(sizes) |-> [id |-> i - 1, size |-> sizes[i]]]

Instance(name, sizes, capacity) ==
    [name |-> name, deliveries |-> Deliveries(sizes), vehicle_capacity |-> capacity]

FileNames == UNION {AuxSet(Instance(n, <<>>, 1)) : n \in Names}

----------------------------------------------------------------------------
(* _get_num_vehicles *)

min_demand(inst) ==
    Min({inst.deliveries[i].size : i \in 1..Len(inst.deliveries)})

max_demand(inst) ==
    Max({inst.deliveries[i].size : i \in 1..Len(inst.deliveries)})

GuardedNumVehicles(inst) ==
    LET num_deliveries == Len(inst.deliveries)
    IN  IF num_deliveries = 0 THEN [err |-> "ValueError", value |-> 0]
        ELSE LET q == inst.vehicle_capacity \div max_demand(inst)
             IN  IF q = 0 THEN [err |-> NoError, value |-> num_deliveries]
                 ELSE [err |-> NoError, value |-> ceil(num_deliveries, q)]

\* max() of an empty sequence raises ValueError; a true division by zero
\* raises ZeroDivisionError
_get_num_vehicles(inst) ==
    LET num_deliveries == Len(inst.deliveries)
    IN  IF num_deliveries = 0 THEN [err |-> "ValueError", value |-> 0]
        ELSE LET q == inst.vehicle_capacity \div max_demand(inst)
             IN  IF q = 0 THEN [err |-> "ZeroDivisionError", value |-> 0]
                 ELSE [err |-> NoError, value |-> ceil(num_deliveries, q)]

----------------------------------------------------------------------------
(* read_solution *)

\* `for line in f: if line.startswith("TOUR_SECTION"): break`: the position of
\* the file iterator after the loop (past the end when no line matches)
SkipHeader(f) ==
    LET hits == {i \in 1..Len(f) : f[i].txt = "TOUR_SECTION"}
    IN  IF hits = {} THEN Len(f) + 1 ELSE Min(hits) + 1

NormalizeLate(node, num_locations) ==
    IF node <= num_locations + 1 THEN node ELSE DEPOT_NODE

\* `node if node <= num_locations else DEPOT_NODE`
Normalize(node, num_locations) ==
    IF node <= num_locations THEN node ELSE DEPOT_NODE

\* list(read_delivery_nodes_gen()): the rest of the file from position pos.
\* int() of a non-numeral raises ValueError; -1 ends the reading, and so does
\* the end of the file
RECURSIVE read_delivery_nodes_gen(_, _, _)
read_delivery_nodes_gen(f, pos, num_locations) ==
    IF pos > Len(f) THEN [err |-> NoError, nodes |-> <<>>]
    ELSE IF f[pos].txt # "" THEN [err |-> "ValueError", nodes |-> <<>>]
    ELSE LET node == f[pos].num
         IN  IF node = -1 THEN [err |-> NoError, nodes |-> <<>>]
             ELSE LET rest == read_delivery_nodes_gen(f, pos + 1, num_locations)
                  IN  [err   |-> rest.err,
                       nodes |-> IF rest.err = NoError
                                 THEN <<Normalize(node, num_locations)>> \o rest.nodes
                                 ELSE <<>>]

\* itertools.groupby(nodes, key=lambda x: x == DEPOT_NODE): the consecutive
\* groups of equal key, in order
RECURSIVE groupby(_)
groupby(nodes) ==
    IF nodes = <<>> THEN <<>>
    ELSE LET key  == (nodes[1] = DEPOT_NODE)
             same == {k \in 1..Len(nodes) :
                         \A j \in 1..k : (nodes[j] = DEPOT_NODE) = key}
             k    == Max(same)
         IN  <<[key |-> key, group |-> SubSeq(nodes, 1, k)]>>
             \o groupby(SubSeq(nodes, k + 1, Len(nodes)))

SelectAllGroups(groups) == groups

\* `for key, nodes_group in nodes_groups if not key`
SelectNonDepotGroups(groups) == SelectSeq(groups, LAMBDA g : ~g.key)

write_route_shifted(inst, nodes_group) ==
    LET n   == Len(inst.deliveries)
        pos == [i \in 1..Len(nodes_group) |-> PyIndex(n, nodes_group[i] - 1)]
    IN  IF \E i \in 1..Len(nodes_group) : pos[i] = 0
        THEN [err |-> "IndexError", deliveries |-> <<>>]
        ELSE [err |-> NoError,
              deliveries |-> [i \in 1..Len(nodes_group) |-> inst.deliveries[pos[i]]]]

\* instance.deliveries[node - 2] for every node of the group
write_route(inst, nodes_group) ==
    LET n   == Len(inst.deliveries)
        pos == [i \in 1..Len(nodes_group) |-> PyIndex(n, nodes_group[i] - 2)]
    IN  IF \E i \in 1..Len(nodes_group) : pos[i] = 0
        THEN [err |-> "IndexError", deliveries |-> <<>>]
        ELSE [err |-> NoError,
              deliveries |-> [i \in 1..Len(nodes_group) |-> inst.deliveries[pos[i]]]]

\* The body of read_solution once the tour file is open: what it raises, or
\* the CVRPSolution it returns
DecodeTour(inst, f) ==
    LET num_locations   == Len(inst.deliveries) + 1
        all_route_nodes == read_delivery_nodes_gen(f, SkipHeader(f), num_locations)
    IN  IF all_route_nodes.err # NoError
        THEN [err |-> all_route_nodes.err, solution |-> <<>>]
        ELSE LET groups == SelectNonDepotGroups(groupby(all_route_nodes.nodes))
                 routes == [i \in 1..Len(groups) |-> write_route(inst, groups[i].group)]
             IN  IF \E i \in 1..Len(groups) : routes[i].err # NoError
                 THEN [err |-> "IndexError", solution |-> <<>>]
                 ELSE [err |-> NoError,
                       solution |-> <<[name     |-> inst.name,
                                       vehicles |-> [i \in 1..Len(groups) |->
                                           [deliveries |-> routes[i].deliveries]]]>>]

----------------------------------------------------------------------------
(* Files the pipeline writes *)

\* to_tsplib(instance, file_name=...): the problem file
ProblemFile(inst) == [NoFile EXCEPT !.kind = "problem"]

\* the .par file: PROBLEM_FILE, TOUR_FILE and VEHICLES
ParameterFile(inst, num_vehicles) ==
    LET names == _get_auxiliary_file_names(inst)
    IN  [NoFile EXCEPT !.kind = "parameter",
                       !.problem_file = names.input_vrp_file,
                       !.tour_file = names.output_tour_file,
                       !.vehicles = num_vehicles]

TourFile(lines) == [NoFile EXCEPT !.kind = "tour", !.lines = lines]

\* A complete tour over n deliveries, as LKH-3 writes it
CompleteTour(n) ==
    <<Txt("DIMENSION"), Txt("TOUR_SECTION"), Num(1)>>
    \o [i \in 1..n |-> Num(i + 1)] \o <<Num(-1), Txt("EOF")>>

\* Tour files the solver may leave behind in the pipeline model
SolverOutputs(n) ==
    {CompleteTour(n),
     <<Txt("DIMENSION"), Txt("TOUR_SECTION"), Num(1), Num(2)>>,
     <<Txt("DIMENSION")>>}

ExitCodes == {0, 1}

----------------------------------------------------------------------------
(* The solve pipeline *)

Running == {"convert_instance_file", "solve_lkh", "read_solution",
            "remove_auxiliary_files"}

Raise(p, e) ==
    /\ pc' = [pc EXCEPT ![p] = "raised"]
    /\ err' = [err EXCEPT ![p] = e]

Touch(p, files) == touched' = [touched EXCEPT ![p] = @ \cup files]

\* solve() line 49: writes the problem file, estimates the vehicles, writes
\* the parameter file
convert_instance_file(p) ==
    /\ pc[p] = "convert_instance_file"
    /\ LET auxiliary_file_names == _get_auxiliary_file_names(instance[p])
           vrp == auxiliary_file_names.input_vrp_file
           par == auxiliary_file_names.input_par_file
           num_vehicles == _get_num_vehicles(instance[p])
           fs1 == [fs EXCEPT ![vrp] = ProblemFile(instance[p])]
       IN  IF num_vehicles.err # NoError
           THEN /\ fs' = fs1
                /\ Touch(p, {vrp})
                /\ Raise(p, num_vehicles.err)
           ELSE /\ fs' = [fs1 EXCEPT
                            ![par] = ParameterFile(instance[p], num_vehicles.value)]
                /\ Touch(p, {vrp, par})
                /\ pc' = [pc EXCEPT ![p] = "solve_lkh"]
                /\ err' = err
    /\ UNCHANGED <<instance, solution, launched, exitcode>>

\* solve() line 52: Popen of the solver on the parameter file, then wait().
\* The solver reads the files its parameter file names and may write the
\* tour file; its exit status is not read.
solve_lkh(p) ==
    /\ pc[p] = "solve_lkh"
    /\ LET par == _get_auxiliary_file_names(instance[p]).input_par_file
           given == fs[par]
       IN  \E code \in ExitCodes, writes \in BOOLEAN,
              out \in SolverOutputs(Len(instance[p].deliveries)) :
              /\ launched' = [launched EXCEPT ![p] = TRUE]
              /\ exitcode' = [exitcode EXCEPT ![p] = code]
              /\ fs' = IF writes
                       THEN [fs EXCEPT ![given.tour_file] = TourFile(out)]
                       ELSE fs
              /\ Touch(p, {par, given.problem_file}
                          \cup IF writes THEN {given.tour_file} ELSE {})
    /\ pc' = [pc EXCEPT ![p] = "read_solution"]
    /\ UNCHANGED <<instance, err, solution>>

\* solve() line 52 when the solver executable cannot be started: Popen raises
solve_lkh_not_started(p) ==
    /\ pc[p] = "solve_lkh"
    /\ Raise(p, "FileNotFoundError")
    /\ UNCHANGED <<instance, fs, solution, launched, exitcode, touched>>

\* solve() line 55
read_solution(p) ==
    /\ pc[p] = "read_solution"
    /\ LET tour == _get_auxiliary_file_names(instance[p]).output_tour_file
       IN  /\ Touch(p, {tour})
           /\ IF ~Exists(tour)
              THEN /\ Raise(p, "FileNotFoundError")
                   /\ solution' = solution
              ELSE LET r == DecodeTour(instance[p], fs[tour].lines)
                   IN  IF r.err # NoError
                       THEN /\ Raise(p, r.err)
                            /\ solution' = solution
                       ELSE /\ solution' = [solution EXCEPT ![p] = r.solution]
                            /\ pc' = [pc EXCEPT ![p] = "remove_auxiliary_files"]
                            /\ err' = err
    /\ UNCHANGED <<instance, fs, launched, exitcode>>

\* os.remove of each auxiliary file in turn: the files 1..k-1 are gone when
\* the k-th is missing and os.remove raises
RemovedUpTo(inst, k) ==
    [f \in DOMAIN fs |->
        IF \E i \in 1..k : AuxValues(inst)[i] = f THEN NoFile ELSE fs[f]]

\* solve() lines 58-60
remove_auxiliary_files(p) ==
    /\ pc[p] = "remove_auxiliary_files"
    /\ LET values  == AuxValues(instance[p])
           missing == {i \in 1..3 : ~Exists(values[i])}
       IN  IF missing = {}
           THEN /\ fs' = RemovedUpTo(instance[p], 3)
                /\ Touch(p, {values[i] : i \in 1..3})
                /\ pc' = [pc EXCEPT ![p] = "returned"]
                /\ err' = err
           ELSE /\ fs' = RemovedUpTo(instance[p], Min(missing) - 1)
                /\ Touch(p, {values[i] : i \in 1..Min(missing)})
                /\ Raise(p, "FileNotFoundError")
    /\ UNCHANGED <<instance, solution, launched, exitcode>>

\* The caller interrupts a running solve: the exception leaves solve() from
\* wherever it is, and solve() has no handler
KeyboardInterrupt(p) ==
    /\ pc[p] \in Running
    /\ Raise(p, "KeyboardInterrupt")
    /\ UNCHANGED <<instance, fs, solution, launched, exitcode, touched>>

----------------------------------------------------------------------------
(* Two concurrent solves of differently named instances *)

SolveInstances ==
    {Instance(n, s[1], s[2]) :
        n \in Names, s \in {<<<<1, 1>>, 2>>, <<<<2>>, 1>>, <<<<>>, 1>>}}

Init ==
    /\ instance \in [1..2 -> SolveInstances]
    /\ instance[1].name # instance[2].name
    /\ fs = [f \in FileNames |-> NoFile]
    /\ pc = [p \in 1..2 |-> "convert_instance_file"]
    /\ err = [p \in 1..2 |-> NoError]
    /\ solution = [p \in 1..2 |-> <<>>]
    /\ launched = [p \in 1..2 |-> FALSE]
    /\ exitcode = [p \in 1..2 |-> 0]
    /\ touched = [p \in 1..2 |-> {}]

Next ==
    \/ \E p \in DOMAIN pc : convert_instance_file(p)
    \/ \E p \in DOMAIN pc : solve_lkh(p)
    \/ \E p \in DOMAIN pc : solve_lkh_not_started(p)
    \/ \E p \in DOMAIN pc : read_solution(p)
    \/ \E p \in DOMAIN pc : remove_auxiliary_files(p)
    \/ \E p \in DOMAIN pc : KeyboardInterrupt(p)

Spec == Init /\ [][Next]_vars

----------------------------------------------------------------------------
(* read_solution alone, over every small tour file *)

\* Lines a tour body may hold for n deliveries: node values from -1 up to the
\* depot copy n+2 of an additional vehicle, and a text line
BodyLines(n) == {Num(k) : k \in (-1)..(n + 2)} \cup {Txt("EOF")}

\* docstring of read_solution, lines 111-126: depot and deliveries 2..6
Example1 ==
    <<Txt("TOUR_SECTION"), Num(1), Num(2), Num(3), Num(7), Num(4), Num(5),
      Num(6), Num(-1)>>

\* leading, doubled and trailing depot tokens
Example3 ==
    <<Txt("TOUR_SECTION"), Num(1), Num(1), Num(2), Num(3), Num(1), Num(-1)>>

UnitInstance(n) == Instance("a", [i \in 1..n |-> 1], 1)

\* solve() is about to read the tour file f the solver left for n deliveries
AboutToRead(n, f) ==
    LET inst  == UnitInstance(n)
        names == _get_auxiliary_file_names(inst)
    IN  /\ instance = [p \in {1} |-> inst]
        /\ fs = [g \in FileNames |->
                   IF g = names.input_vrp_file THEN ProblemFile(inst)
                   ELSE IF g = names.input_par_file THEN ParameterFile(inst, n)
                   ELSE IF g = names.output_tour_file THEN TourFile(f)
                   ELSE NoFile]
        /\ pc = [p \in {1} |-> "read_solution"]
        /\ err = [p \in {1} |-> NoError]
        /\ solution = [p \in {1} |-> <<>>]
        /\ launched = [p \in {1} |-> TRUE]
        /\ exitcode = [p \in {1} |-> 0]
        /\ touched = [p \in {1} |-> AuxSet(inst)]

\* Tour files of at most one header line, the marker or not, and a body of
\* up to n+2 lines (a depot token, the n deliveries and the sentinel); and
\* the two examples
InitDecode ==
    \/ \E n \in 1..MaxTourDeliveries :
       \E h \in {<<>>, <<Txt("DIMENSION")>>}, m \in {<<>>, <<Txt("TOUR_SECTION")>>} :
       \E len \in 0..(n + 2) :
       \E b \in [1..len -> BodyLines(n)] :
           AboutToRead(n, h \o m \o b)
    \/ AboutToRead(5, Example1)
    \/ AboutToRead(2, Example3)

NextDecode == \E p \in DOMAIN pc : read_solution(p)

SpecDecode == InitDecode /\ [][NextDecode]_vars

----------------------------------------------------------------------------
(* convert_instance_file alone, over every small instance *)

InitVehicles ==
    \E sizes \in BoundedSeq(1..MaxSize, MaxDeliveries), capacity \in 1..MaxCapacity :
        /\ instance = [p \in {1} |-> Instance("a", sizes, capacity)]
        /\ fs = [f \in FileNames |-> NoFile]
        /\ pc = [p \in {1} |-> "convert_instance_file"]
        /\ err = [p \in {1} |-> NoError]
        /\ solution = [p \in {1} |-> <<>>]
        /\ launched = [p \in {1} |-> FALSE]
        /\ exitcode = [p \in {1} |-> 0]
        /\ touched = [p \in {1} |-> {}]

NextVehicles == \E p \in DOMAIN pc : convert_instance_file(p)

SpecVehicles == InitVehicles /\ [][NextVehicles]_vars

----------------------------------------------------------------------------
(* What the properties below read off a state *)

NumDeliveries(p) == Len(instance[p].deliveries)

\* The lines of call p's tour file (<<>> when there is none)
TourLines(p) == fs[_get_auxiliary_file_names(instance[p]).output_tour_file].lines

\* Index of the TOUR_SECTION line, 0 when the file has none
MarkerAt(f) ==
    IF \E i \in 1..Len(f) : f[i] = Txt("TOUR_SECTION")
    THEN Min({i \in 1..Len(f) : f[i] = Txt("TOUR_SECTION")})
    ELSE 0

\* Index of the first -1 line after the marker, 0 when there is none
SentinelAt(f) ==
    IF MarkerAt(f) # 0 /\ \E i \in (MarkerAt(f) + 1)..Len(f) : f[i] = Num(-1)
    THEN Min({i \in (MarkerAt(f) + 1)..Len(f) : f[i] = Num(-1)})
    ELSE 0

\* The tour body: the lines after the marker, up to the sentinel or the end
Body(f) ==
    IF MarkerAt(f) = 0 THEN <<>>
    ELSE SubSeq(f, MarkerAt(f) + 1,
                IF SentinelAt(f) = 0 THEN Len(f) ELSE SentinelAt(f) - 1)

IsBoundary(k, n) == k = 1 \/ k > n + 1
IsDeliveryNode(k, n) == k >= 2 /\ k <= n + 1

\* read_solution has returned a CVRPSolution to solve()
Decoded(p) == pc[p] = "remove_auxiliary_files" /\ Len(solution[p]) = 1

Vehicles(p) == solution[p][1].vehicles

\* Start positions of the maximal runs of non-boundary tokens of body b
RunStarts(b, n) ==
    {i \in 1..Len(b) : /\ ~IsBoundary(b[i].num, n)
                       /\ (i = 1 \/ IsBoundary(b[i - 1].num, n))}

\* Length of the run that starts at position i
RunLength(b, n, i) ==
    Max({m \in 1..(Len(b) - i + 1) :
            \A j \in i..(i + m - 1) : ~IsBoundary(b[j].num, n)})

\* The k-th run start, in body order
NthStart(b, n, k) ==
    CHOOSE i \in RunStarts(b, n) :
        Cardinality({j \in RunStarts(b, n) : j <= i}) = k

\* The vehicles are the maximal runs of body b, in order, and a node k of
\* 2..n+1 stands for delivery k-2
RoutesAreRuns(p, b) ==
    LET n == NumDeliveries(p)
    IN  /\ Len(Vehicles(p)) = Cardinality(RunStarts(b, n))
        /\ \A k \in 1..Len(Vehicles(p)) :
              LET route == Vehicles(p)[k].deliveries
                  start == NthStart(b, n, k)
              IN  /\ Len(route) >= 1
                  /\ Len(route) = RunLength(b, n, start)
                  /\ \A j \in 1..Len(route) :
                        IsDeliveryNode(b[start + j - 1].num, n)
                            => route[j].id = b[start + j - 1].num - 2

\* The ids of the deliveries of each vehicle, in order
RouteIds(p) ==
    [k \in 1..Len(Vehicles(p)) |->
        [j \in 1..Len(Vehicles(p)[k].deliveries) |-> Vehicles(p)[k].deliveries[j].id]]

----------------------------------------------------------------------------
(* C1 *)

\* C1: once a solve call has ended, by returning or by raising (a failure of
\* any stage, or an interrupt), none of the three auxiliary files of its
\* instance exists.
C1_NoAuxiliaryFilesAfterSolve ==
    \A p \in DOMAIN pc :
        pc[p] \in {"returned", "raised"}
            => \A f \in AuxSet(instance[p]) : ~Exists(f)

----------------------------------------------------------------------------
(* C2 *)

\* C2: read_solution returns no CVRPSolution for a tour file without the
\* TOUR_SECTION marker or whose body ends without the -1 sentinel.
C2_MalformedTourFails ==
    \A p \in DOMAIN pc :
        Decoded(p) => MarkerAt(TourLines(p)) # 0 /\ SentinelAt(TourLines(p)) # 0

----------------------------------------------------------------------------
(* C3 *)

\* C3: node k of 2..n+1 decodes to delivery k-2, and read_solution returns no
\* solution for a body holding a token that is neither a route boundary
\* (1 or > n+1) nor a delivery node of 2..n+1.
C3_OutOfRangeNodeFails ==
    \A p \in DOMAIN pc :
        Decoded(p) =>
            LET b == Body(TourLines(p))
            IN  /\ \A i \in 1..Len(b) :
                      \/ IsBoundary(b[i].num, NumDeliveries(p))
                      \/ IsDeliveryNode(b[i].num, NumDeliveries(p))
                /\ RoutesAreRuns(p, b)

----------------------------------------------------------------------------
(* C7 *)

\* A feasible body: a marker, a sentinel, only numerals, and every node of
\* 2..n+1 exactly once among boundary tokens
Feasible(f, n) ==
    /\ MarkerAt(f) # 0
    /\ SentinelAt(f) # 0
    /\ \A i \in 1..Len(Body(f)) :
          /\ Body(f)[i].txt = ""
          /\ IsBoundary(Body(f)[i].num, n) \/ IsDeliveryNode(Body(f)[i].num, n)
    /\ \A k \in 2..(n + 1) :
          Cardinality({i \in 1..Len(Body(f)) : Body(f)[i].num = k}) = 1

\* Where delivery d occurs in the returned vehicles
Occurrences(p, d) ==
    {<<k, j>> \in (1..Len(Vehicles(p))) \X (1..NumDeliveries(p)) :
        /\ j <= Len(Vehicles(p)[k].deliveries)
        /\ Vehicles(p)[k].deliveries[j] = d}

\* C7: for a feasible tour body read_solution returns a solution that has the
\* instance's name and holds every delivery of the instance exactly once.
C7_FeasibleTourPartitionsDeliveries ==
    \A p \in DOMAIN pc :
        (pc[p] # "read_solution" /\ Feasible(TourLines(p), NumDeliveries(p)))
            => /\ Decoded(p)
               /\ solution[p][1].name = instance[p].name
               /\ \A k \in 1..Len(Vehicles(p)) :
                     Len(Vehicles(p)[k].deliveries) <= NumDeliveries(p)
               /\ \A i \in 1..NumDeliveries(p) :
                     Cardinality(Occurrences(p, instance[p].deliveries[i])) = 1

\* a feasible body of two routes was decoded
C7_Witness ==
    \E p \in DOMAIN pc :
        /\ Decoded(p)
        /\ Feasible(TourLines(p), NumDeliveries(p))
        /\ Len(Vehicles(p)) = 2

----------------------------------------------------------------------------
(* C9 *)

\* C9: the routes read_solution returns are the maximal runs of non-depot
\* tokens of the normalized body, in body order, each in its own order and
\* none empty; the bodies 1 1 2 3 1 -1 (n = 2) and 1 2 3 7 4 5 6 -1 (n = 5)
\* give [d0, d1] and [d0, d1], [d2, d3, d4].
C9_RoutesAreMaximalRuns ==
    \A p \in DOMAIN pc :
        Decoded(p) =>
            /\ RoutesAreRuns(p, Body(TourLines(p)))
            /\ (TourLines(p) = Example3 /\ NumDeliveries(p) = 2)
                  => RouteIds(p) = <<(<<0, 1>>)>>
            /\ (TourLines(p) = Example1 /\ NumDeliveries(p) = 5)
                  => RouteIds(p) = <<(<<0, 1>>), (<<2, 3, 4>>)>>

\* a body with doubled and trailing depot tokens was decoded
C9_Witness ==
    \E p \in DOMAIN pc :
        /\ Decoded(p)
        /\ TourLines(p) = Example3
        /\ Len(Vehicles(p)) = 1

----------------------------------------------------------------------------
(* C10 *)

\* C10: a body with one token greater than n+1 replaced by the depot token 1
\* decodes to what the body itself decoded to: the same routes, or the same
\* failure.
C10_LargeTokenDecodesAsDepot ==
    \A p \in DOMAIN pc :
        pc[p] # "read_solution" =>
            \A i \in 1..Len(TourLines(p)) :
                (TourLines(p)[i].txt = "" /\ TourLines(p)[i].num > NumDeliveries(p) + 1)
                    => LET r == DecodeTour(instance[p],
                                           [TourLines(p) EXCEPT ![i] = Num(DEPOT_NODE)])
                       IN  r.err = err[p] /\ r.solution = solution[p]

\* a body split into two routes by a token greater than n+1 was decoded
C10_Witness ==
    \E p \in DOMAIN pc :
        /\ Decoded(p)
        /\ Len(Vehicles(p)) = 2
        /\ \E i \in 1..Len(Body(TourLines(p))) :
              Body(TourLines(p))[i].num > NumDeliveries(p) + 1

----------------------------------------------------------------------------
(* C4 *)

Sizes(p) == {instance[p].deliveries[i].size : i \in 1..NumDeliveries(p)}

RECURSIVE SumOfSizes(_)
SumOfSizes(deliveries) ==
    IF deliveries = <<>> THEN 0
    ELSE deliveries[1].size + SumOfSizes(Tail(deliveries))

\* floor(C / max(d_i)): the most deliveries of the largest size one vehicle holds
PerVehicle(p) ==
    LET C == instance[p].vehicle_capacity
        largest == CHOOSE d \in Sizes(p) : \A e \in Sizes(p) : e <= d
    IN  CHOOSE q \in 0..C : q * largest <= C /\ (q + 1) * largest > C

\* The VEHICLES value of call p's parameter file
VehiclesWritten(p) ==
    fs[_get_auxiliary_file_names(instance[p]).input_par_file].vehicles

\* C4: for n >= 1 deliveries of positive demand, none above the capacity C,
\* the vehicle count written for the solver is at least ceil(sum(d_i) / C)
\* and is ceil(n / floor(C / max(d_i))).
C4_VehicleCountCoversDemand ==
    \A p \in DOMAIN pc :
        ( /\ pc[p] # "convert_instance_file"
          /\ NumDeliveries(p) >= 1
          /\ \A d \in Sizes(p) : d <= instance[p].vehicle_capacity )
            => /\ pc[p] = "solve_lkh"
               /\ VehiclesWritten(p) * instance[p].vehicle_capacity
                      >= SumOfSizes(instance[p].deliveries)
               /\ VehiclesWritten(p) * PerVehicle(p) >= NumDeliveries(p)
               /\ (VehiclesWritten(p) - 1) * PerVehicle(p) < NumDeliveries(p)

\* demands 3, 4, 5 and capacity 6: three vehicles, where ceil(12 / 6) is 2
C4_Witness ==
    \E p \in DOMAIN pc :
        /\ pc[p] = "solve_lkh"
        /\ instance[p].vehicle_capacity = 6
        /\ [i \in 1..NumDeliveries(p) |-> instance[p].deliveries[i].size] = <<3, 4, 5>>
        /\ VehiclesWritten(p) = 3

----------------------------------------------------------------------------
(* C5 *)

\* Some delivery of call p does not fit a vehicle
Overweight(p) == \E d \in Sizes(p) : d > instance[p].vehicle_capacity

----------------------------------------------------------------------------
(* C6 *)

\* C6: when the solver process exits with a code other than 0, solve fails:
\* the tour file is not decoded and no CVRPSolution is returned.
C6_NonzeroExitFailsSolve ==
    \A p \in DOMAIN pc :
        (launched[p] /\ exitcode[p] # 0)
            => /\ solution[p] = <<>>
               /\ pc[p] \notin {"remove_auxiliary_files", "returned"}

----------------------------------------------------------------------------
(* C8 *)

\* Instance names the file-name derivation is compared on
SampleNames == Names \cup {"", "a.par", "temp_a", "ab"}

NamesOf(name) == AuxSet(Instance(name, <<>>, 1))

\* C8: the three auxiliary file names of an instance are pairwise distinct
\* and disjoint from those of any differently named instance, and of two
\* concurrent solves of differently named instances neither writes, reads
\* or deletes a file of the other.
C8_DistinctNamesNeverCollide ==
    /\ \A a \in SampleNames, b \in SampleNames :
          /\ Cardinality(NamesOf(a)) = 3
          /\ a # b => NamesOf(a) \cap NamesOf(b) = {}
    /\ \A p \in DOMAIN pc, q \in DOMAIN pc :
          instance[p].name # instance[q].name
              => touched[p] \cap AuxSet(instance[q]) = {}

\* both solves have had their solver write a tour file and are about to read it
C8_Witness ==
    \E p \in DOMAIN pc, q \in DOMAIN pc :
        /\ p # q
        /\ pc[p] = "read_solution" /\ pc[q] = "read_solution"
        /\ Cardinality(touched[p]) = 3 /\ Cardinality(touched[q]) = 3
        /\ \A f \in AuxSet(instance[p]) \cup AuxSet(instance[q]) : Exists(f)

====
